---- MODULE Spec2Model ----
(***************************************************************************)
(* A model of qart (rsc.io/qr/qart): the bit-steering engine Image.Encode, *)
(* the per-block GF(2) solver BitBlock and the plan rotation Image.rotate. *)
(* Bytes are integers 0..255 and byte slices are sequences of them; bit bi *)
(* of a slice is bit 7-bi&7 of byte bi/8, as everywhere in the source.     *)
(***************************************************************************)
EXTENDS Integers, Sequences, FiniteSets, TLC

VARIABLES
    pc,         \* where Encode is
    m,          \* the Image: URL, Version, Mask, Rotation, Target, Dx, Dy, flags
    p,          \* the coding.Plan: DataBytes, CheckBytes, Blocks, Pixel
    rnd,        \* the state of the random source
    nd,         \* Encode's local nd (data bytes per block)
    pixByOff,   \* Pixinfo by data/check bit number
    num,        \* the digits read back from the steered data
    doff, coff, \* data offset and checksum offset of the current block, in bits
    blocknum,   \* index of the current block
    ipres,      \* loop index i of the two "preserve" loops
    bitblocks,  \* the blocks of the current pass, as heap indices
    order,      \* the Pixorders of the current block not yet walked
    dpos,       \* the dither pass's position in p.Pixel, row-major
    expect,     \* expect[y][x]: is the module at column x, row y expected black
    heap,       \* every BitBlock allocated so far; a *BitBlock is an index, 0 is nil
    data,       \* the byte array behind b.Bytes(): data bytes, then check bytes
    result,     \* "running", "ok", an error Encode returns, or the panic raised
    restarts,   \* history: number of jumps back to Again
    pinned,     \* history: for every block of heap, bit index -> the value
                \* canSet or reset last gave that bit
    last,       \* history: the last solver call, its block and what it returned
    nops        \* history: number of solver calls made

encvars == <<pc, m, p, rnd, nd, pixByOff, num, doff, coff, blocknum, ipres,
             bitblocks, order, dpos, expect, restarts>>
vars == <<pc, m, p, rnd, nd, pixByOff, num, doff, coff, blocknum, ipres,
          bitblocks, order, dpos, expect, heap, data, result, restarts, pinned,
          last, nops>>

(***************************************************************************)
(* Bytes.                                                                  *)
(***************************************************************************)

\* 4-bit exclusive or, tabulated; Xor is Go's ^ on bytes.
NibXor ==
    [a \in 0..15 |-> [b \in 0..15 |->
        ((a + b) % 2)
        + 2 * (((a \div 2) + (b \div 2)) % 2)
        + 4 * (((a \div 4) + (b \div 4)) % 2)
        + 8 * (((a \div 8) + (b \div 8)) % 2)]]

Xor(a, b) == 16 * NibXor[a \div 16][b \div 16] + NibXor[a % 16][b % 16]

\* for k := range row { row[k] ^= targ[k] }
XorBytes(row, targ) == [k \in 1..Len(row) |-> Xor(row[k], targ[k])]

\* (row[bi/8] >> (7 - bi&7)) & 1
BitAt(row, bi) == (row[(bi \div 8) + 1] \div (2 ^ (7 - (bi % 8)))) % 2

Zeros(n) == [k \in 1..n |-> 0]

(***************************************************************************)
(* gf256: the field GF(256) with polynomial x^8+x^4+x^3+x^2+1 (0x11d) and  *)
(* generator 2, and the systematic Reed-Solomon encoder over it.           *)
(***************************************************************************)

GfTimes2(a) == IF a >= 128 THEN Xor(2 * a - 256, 29) ELSE 2 * a

RECURSIVE GfMul(_, _)
GfMul(a, b) ==
    IF b = 0 THEN 0
    ELSE Xor(IF b % 2 = 1 THEN a ELSE 0, GfMul(GfTimes2(a), b \div 2))

RECURSIVE GfExp(_)
GfExp(e) == IF e = 0 THEN 1 ELSE GfTimes2(GfExp(e - 1))

\* The generator polynomial (x + 2^0)(x + 2^1)...(x + 2^(c-1)), highest
\* coefficient first.
RECURSIVE NewRSEncoder(_)
NewRSEncoder(c) ==
    IF c = 0 THEN <<1>>
    ELSE LET g == NewRSEncoder(c - 1)
             e == GfExp(c - 1)
         IN  [k \in 1..(c + 1) |->
                 Xor(IF k <= c THEN g[k] ELSE 0,
                     IF k >= 2 THEN GfMul(g[k - 1], e) ELSE 0)]

\* Long division of p by the generator rs, from term i to term n.
RECURSIVE RSDivide(_, _, _, _)
RSDivide(poly, rs, at, n) ==
    IF at > n THEN poly
    ELSE LET c == poly[at]
             q == IF c = 0 THEN poly
                  ELSE [k \in 1..Len(poly) |->
                           IF k > at /\ k < at + Len(rs)
                           THEN Xor(poly[k], GfMul(c, rs[k - at + 1]))
                           ELSE poly[k]]
         IN  RSDivide(q, rs, at + 1, n)

\* rs.ECC(data, check): the check bytes of data.
ECC(rs, dat) ==
    LET c == Len(rs) - 1
        rem == RSDivide(dat \o Zeros(c), rs, 1, Len(dat))
    IN  SubSeq(rem, Len(dat) + 1, Len(dat) + c)

(***************************************************************************)
(* BitBlock.  M is the whole row slab (cap(b.M) rows); its first len rows  *)
(* are b.M and the rows after them are b.M[len(b.M):cap(b.M)].  bdata and  *)
(* cdata are the byte offsets in `data` of the two slices the block keeps. *)
(* An operation yields the block after it, what it returned, and its panic.*)
(***************************************************************************)

Slice(mem, off, n) == SubSeq(mem, off + 1, off + n)

\* b.check(): does ECC(B[:nd]) differ from B[nd:]?
checkFails(b, B) ==
    ECC(b.RS, SubSeq(B, 1, b.DataBytes))
        # SubSeq(B, b.DataBytes + 1, b.DataBytes + b.CheckBytes)

\* A faulty row: data bit i alone, its check bytes left zero.
unitRowNoECC(n, rs, bit) ==
    [k \in 1..n |-> IF k = (bit \div 8) + 1 THEN 2 ^ (7 - (bit % 8)) ELSE 0]
        \o Zeros(Len(ECC(rs, Zeros(n))))

\* Row i of the initial tableau: data bit i alone, with its check bytes.
unitRow(n, rs, bit) ==
    LET row == [k \in 1..n |-> IF k = (bit \div 8) + 1 THEN 2 ^ (7 - (bit % 8)) ELSE 0]
    IN  row \o ECC(rs, row)

newBlock(n, nc, rs, mem, bdata, cdata) ==
    LET dat == Slice(mem, bdata, n)
        B == dat \o ECC(rs, dat)
        b == [DataBytes |-> n, CheckBytes |-> nc, B |-> B,
              M |-> [r \in 1..(n * 8) |-> unitRow(n, rs, r - 1)],
              len |-> n * 8, RS |-> rs, bdata |-> bdata, cdata |-> cdata]
    IN  [bb |-> b, ret |-> TRUE,
         panic |-> IF checkFails(b, B) THEN "mismatch"
                   ELSE IF ECC(rs, dat) # Slice(mem, cdata, nc) THEN "cdata"
                   ELSE "none"]

\* The first row of b.M with bit bi set (0 when there is none).
pivot(b, bi) ==
    LET hit == {j \in 1..b.len : BitAt(b.M[j], bi) = 1}
    IN  IF hit = {} THEN 0 ELSE CHOOSE j \in hit : \A k \in hit : j <= k

\* canSet's first loop: the pivot row j0 goes to the front and is subtracted
\* from every later row of b.M that has bit bi.
reduceActive(b, bi, j0) ==
    [j \in 1..Len(b.M) |->
        IF j > b.len THEN b.M[j]
        ELSE IF j = 1 THEN b.M[j0]
        ELSE IF j = j0 THEN b.M[1]
        ELSE IF j > j0 /\ BitAt(b.M[j], bi) = 1 THEN XorBytes(b.M[j], b.M[j0])
        ELSE b.M[j]]

\* A faulty canSet that leaves the saved-away rows as they are.
reduceSavedNone(M, len, bi, targ) == M

\* "Subtract from saved-away rows too."
reduceSaved(M, len, bi, targ) ==
    [j \in 1..Len(M) |->
        IF j > len /\ BitAt(M[j], bi) = 1 THEN XorBytes(M[j], targ) ELSE M[j]]

\* A faulty canSet that applies the pivot to B whatever bit bi of B is.
applyToDataAlways(B, targ, bi, bval) == XorBytes(B, targ)

\* "Apply to data": flip bit bi of B with the pivot when it is not bval.
applyToData(B, targ, bi, bval) ==
    IF BitAt(B, bi) # bval THEN XorBytes(B, targ) ELSE B

\* m[0], m[n] = m[n], m[0]
swapRows(M, n) ==
    [j \in 1..Len(M) |-> IF j = 1 THEN M[n] ELSE IF j = n THEN M[1] ELSE M[j]]

\* A faulty canSet that reports success when no row has the bit.
notFoundTrue(b) == [bb |-> b, ret |-> TRUE, panic |-> "none"]

\* "if !found { return false }"
notFound(b) == [bb |-> b, ret |-> FALSE, panic |-> "none"]

canSet(b, bi, bval) ==
    LET j0 == pivot(b, bi)
    IN  IF j0 = 0 THEN notFound(b)
        ELSE
          LET targ == b.M[j0]
              M1 == reduceSaved(reduceActive(b, bi, j0), b.len, bi, targ)
              B1 == applyToData(b.B, targ, bi, bval)
              M2 == swapRows(M1, b.len)
              b2 == [b EXCEPT !.B = B1, !.M = M2, !.len = b.len - 1]
          IN  [bb |-> b2, ret |-> TRUE,
               panic |-> IF checkFails(b, B1) THEN "mismatch"
                         ELSE IF \E j \in 1..b2.len : BitAt(M2[j], bi) = 1
                              THEN "did not reduce"
                         ELSE "none"]

\* The saved-away rows that have bit bi set, in slab order.
savedWith(b, bi) == {j \in (b.len + 1)..Len(b.M) : BitAt(b.M[j], bi) = 1}

reset(b, bi, bval) ==
    IF BitAt(b.B, bi) = bval THEN [bb |-> b, ret |-> TRUE, panic |-> "none"]
    ELSE LET hit == savedWith(b, bi)
         IN  IF hit = {} THEN [bb |-> b, ret |-> TRUE, panic |-> "reset of unset bit"]
             ELSE LET j == CHOOSE k \in hit : \A l \in hit : k <= l
                  IN  [bb |-> [b EXCEPT !.B = XorBytes(b.B, b.M[j])],
                       ret |-> TRUE, panic |-> "none"]

\* b.copyOut(): the bytes of mem after copy(b.bdata, ...), copy(b.cdata, ...).
copyOut(b, mem) ==
    [k \in 1..Len(mem) |->
        IF k > b.bdata /\ k <= b.bdata + b.DataBytes THEN b.B[k - b.bdata]
        ELSE IF k > b.cdata /\ k <= b.cdata + b.CheckBytes
             THEN b.B[b.DataBytes + k - b.cdata]
        ELSE mem[k]]

(***************************************************************************)
(* SpecBlock: one BitBlock under any sequence of canSet, reset (of a bit   *)
(* pinned before) and copyOut.                                             *)
(***************************************************************************)

\* Longest sequence of solver calls explored.
MaxOps == 3

\* The block shapes (nd, nc) and the data bytes a block is built from.
BlockShapes == {<<1, 2>>, <<2, 1>>}
BlockData == {0, 165}

NoCall == [op |-> "none", blk |-> 0, bi |-> 0, bval |-> 0, ret |-> FALSE]

Call(op, blk, bi, bval, ret) ==
    [op |-> op, blk |-> blk, bi |-> bi, bval |-> bval, ret |-> ret]

\* pinned after block h has had bit bi set to bval.
Pin(h, bi, bval) == [pinned EXCEPT ![h] = (bi :> bval) @@ pinned[h]]

InitBlock ==
    \E s \in BlockShapes : \E d \in [1..s[1] -> BlockData] :
        LET rs == NewRSEncoder(s[2])
            mem == d \o ECC(rs, d)
            r == newBlock(s[1], s[2], rs, mem, 0, s[1])
        IN  /\ heap = <<r.bb>>
            /\ data = mem
            /\ result = IF r.panic = "none" THEN "running" ELSE r.panic
            /\ pinned = << <<>> >>
            /\ last = NoCall
            /\ nops = 0
            /\ pc = "solver" /\ m = <<>> /\ p = <<>> /\ rnd = 0 /\ nd = s[1]
            /\ pixByOff = <<>> /\ num = <<>> /\ doff = 0 /\ coff = 0
            /\ blocknum = 0 /\ ipres = 0 /\ bitblocks = <<1>> /\ order = {}
            /\ dpos = 0 /\ expect = <<>> /\ restarts = 0

NBits(b) == (b.DataBytes + b.CheckBytes) * 8

\* The bits the calls are made on: the first bit of every byte, and the last
\* bit of the block.
SolverBits(b) == {bi \in 0..(NBits(b) - 1) : bi % 8 = 0 \/ bi = NBits(b) - 1}

CallCanSet ==
    /\ pc = "solver" /\ result = "running" /\ nops < MaxOps
    /\ \E bi \in SolverBits(heap[1]), bval \in {0, 1} :
        LET r == canSet(heap[1], bi, bval)
        IN  /\ heap' = <<r.bb>>
            /\ result' = IF r.panic = "none" THEN "running" ELSE r.panic
            /\ pinned' = IF r.ret THEN Pin(1, bi, bval) ELSE pinned
            /\ last' = Call("canSet", 1, bi, bval, r.ret)
    /\ nops' = nops + 1
    /\ UNCHANGED <<data, encvars>>

CallReset ==
    /\ pc = "solver" /\ result = "running" /\ nops < MaxOps
    /\ \E bi \in DOMAIN pinned[1], bval \in {0, 1} :
        LET r == reset(heap[1], bi, bval)
        IN  /\ heap' = <<r.bb>>
            /\ result' = IF r.panic = "none" THEN "running" ELSE r.panic
            /\ pinned' = Pin(1, bi, bval)
            /\ last' = Call("reset", 1, bi, bval, TRUE)
    /\ nops' = nops + 1
    /\ UNCHANGED <<data, encvars>>

CallCopyOut ==
    /\ pc = "solver" /\ result = "running" /\ nops < MaxOps
    /\ result' = IF checkFails(heap[1], heap[1].B) THEN "mismatch" ELSE "running"
    /\ data' = copyOut(heap[1], data)
    /\ last' = Call("copyOut", 1, 0, 0, TRUE)
    /\ nops' = nops + 1
    /\ UNCHANGED <<heap, pinned, encvars>>

NextBlock == CallCanSet \/ CallReset \/ CallCopyOut

SpecBlock == InitBlock /\ [][NextBlock]_vars

\* A solver call was just made: op on bit last'.bi of block last'.blk.
Called(op) == nops' = nops + 1 /\ last'.op = op

\* C1: after any sequence of canSet, reset and copyOut on a block built by
\* newBlock, the check bytes of B are the Reed-Solomon encoding of its data
\* bytes (check() never panics "mismatch"), and copyOut writes exactly B back.
C1_ValidCodeword ==
    /\ result # "mismatch"
    /\ \A h \in DOMAIN heap : ~checkFails(heap[h], heap[h].B)
    /\ (pc = "solver" /\ last.op = "copyOut") =>
           /\ Slice(data, heap[1].bdata, heap[1].DataBytes)
                 = SubSeq(heap[1].B, 1, heap[1].DataBytes)
           /\ Slice(data, heap[1].cdata, heap[1].CheckBytes)
                 = SubSeq(heap[1].B, heap[1].DataBytes + 1, Len(heap[1].B))

\* A block whose first data byte the calls have changed has been copied out.
C1_Witness ==
    /\ pc = "solver" /\ last.op = "copyOut" /\ result = "running"
    /\ pinned[1] # <<>>
    /\ data[1] \notin BlockData

\* C8: a canSet(i, v) that returns true leaves bit i of B equal to v and
\* every bit pinned before it as it was (so equal to the value it was given);
\* one that returns false leaves B and the rows unchanged.
C8Step ==
    Called("canSet") =>
        LET h == last'.blk
        IN  IF last'.ret
            THEN /\ BitAt(heap'[h].B, last'.bi) = last'.bval
                 /\ \A j \in DOMAIN pinned[h] :
                       /\ BitAt(heap'[h].B, j) = BitAt(heap[h].B, j)
                       /\ BitAt(heap'[h].B, j) = pinned[h][j]
                 /\ heap'[h].len = heap[h].len - 1
            ELSE heap'[h] = heap[h]

\* C8, of every step: each canSet that returns true sets its bit and keeps
\* the bits pinned before it; each that returns false changes nothing.
C8_CanSet == [][C8Step]_vars

\* Two bits are pinned and a canSet has just returned false.
C8_Witness ==
    /\ pc = "solver" /\ last.op = "canSet" /\ ~last.ret
    /\ Cardinality(DOMAIN pinned[1]) >= 2

(***************************************************************************)
(* coding: the bit encoder.  The segment headers are scaled down: a mode   *)
(* indicator is 1 bit, a length field 4 bits and a character of a string   *)
(* 2 bits (characters are 0..3, "#" is 3).  The numeric segment keeps its  *)
(* 10 bits for every three digits; a digit is its value, byte - '0'.       *)
(***************************************************************************)

ToBits(v, w) == [k \in 1..w |-> (v \div (2 ^ (w - k))) % 2]

\* coding.String(s).Encode
StringEncode(s) ==
    <<0>> \o ToBits(Len(s), 4)
          \o [k \in 1..(2 * Len(s)) |->
                 (s[((k - 1) \div 2) + 1] \div (2 ^ (1 - ((k - 1) % 2)))) % 2]

\* coding.Num(s).Encode, for Len(s) a multiple of 3 as in every call of Encode
NumEncode(s) ==
    <<1>> \o ToBits(Len(s), 4)
          \o [k \in 1..(10 * (Len(s) \div 3)) |->
                 LET g == (k - 1) \div 10
                     w == 100 * s[3 * g + 1] + 10 * s[3 * g + 2] + s[3 * g + 3]
                 IN  (w \div (2 ^ (9 - ((k - 1) % 10)))) % 2]

\* b.Pad(n) after nbit bits: the bits it writes.
Pad(nbit, n) ==
    IF n <= 4 THEN Zeros(n)
    ELSE LET al == (8 - ((nbit + 4) % 8)) % 8
             npad == IF n - 4 - al > 0 THEN (n - 4 - al) \div 8 ELSE 0
         IN  Zeros(4 + al)
                 \o [k \in 1..(8 * npad) |->
                        LET c == IF ((k - 1) \div 8) % 2 = 0 THEN 236 ELSE 17
                        IN  (c \div (2 ^ (7 - ((k - 1) % 8)))) % 2]

\* b.Bytes() of a whole number of bytes
Bytes(bits) ==
    [k \in 1..(Len(bits) \div 8) |->
        LET b(j) == bits[8 * (k - 1) + j]
        IN  128 * b(1) + 64 * b(2) + 32 * b(3) + 16 * b(4)
              + 8 * b(5) + 4 * b(6) + 2 * b(7) + b(8)]

\* b.AddCheckBytes(v, l): pad to the data bytes, then append every block's
\* check bytes (the last DataBytes % Blocks blocks hold one more data byte).
AddCheckBytes(bits, pl) ==
    LET padded == bits \o Pad(Len(bits), pl.DataBytes * 8 - Len(bits))
        dat == Bytes(padded)
        db == pl.DataBytes \div pl.Blocks
        ex == pl.DataBytes % pl.Blocks
        nc == pl.CheckBytes \div pl.Blocks
        rs == NewRSEncoder(nc)
        over(k) == IF k > pl.Blocks - ex THEN k - (pl.Blocks - ex) ELSE 0
        blk(k) == Slice(dat, k * db + over(k), db + over(k + 1) - over(k))
    IN  dat \o [j \in 1..pl.CheckBytes |->
                   ECC(rs, blk((j - 1) \div nc))[((j - 1) % nc) + 1]]

(***************************************************************************)
(* coding: the plan.  The versions are scaled down to a 7 x 7 grid holding *)
(* 4 data bytes and 2 check bytes in 1 block (version 1) or 2 blocks       *)
(* (version 2), or 3 data bytes and 2 check bytes in 2 blocks, the last of *)
(* them one data byte longer (version 3).  Bit k of the codeword lies at   *)
(* column N-1-k/N, row N-1-k%N; the cells left over, (0,0) first, are      *)
(* position-pattern modules.                                               *)
(***************************************************************************)

VersionTab ==
    << [DataBytes |-> 4, CheckBytes |-> 2, Blocks |-> 1, N |-> 7],
       [DataBytes |-> 4, CheckBytes |-> 2, Blocks |-> 2, N |-> 7],
       [DataBytes |-> 3, CheckBytes |-> 2, Blocks |-> 2, N |-> 7] >>

\* Masks 0 and 1 of the QR standard.
MaskInvert(mask, x, y) == IF mask = 0 THEN (x + y) % 2 = 0 ELSE y % 2 = 0

ZeroPixel == [Role |-> "none", Offset |-> 0, Invert |-> FALSE, Black |-> FALSE]

NewPlan(version, mask) ==
    LET v == VersionTab[version]
        pix(x, y) ==
            LET k == (v.N - 1 - x) * v.N + (v.N - 1 - y)
            IN  IF k >= (v.DataBytes + v.CheckBytes) * 8
                THEN [Role |-> "Position", Offset |-> 0, Invert |-> FALSE, Black |-> TRUE]
                ELSE [Role |-> IF k < v.DataBytes * 8 THEN "Data" ELSE "Check",
                      Offset |-> k,
                      Invert |-> MaskInvert(mask, x, y),
                      Black |-> MaskInvert(mask, x, y)]
    IN  [Version |-> version, DataBytes |-> v.DataBytes, CheckBytes |-> v.CheckBytes,
         Blocks |-> v.Blocks,
         Pixel |-> [y \in 1..v.N |-> [x \in 1..v.N |-> pix(x - 1, y - 1)]]]

IsBit(pix) == pix.Role = "Data" \/ pix.Role = "Check"

(***************************************************************************)
(* Image.rotate.  Pixel[y + 1][x + 1] is the source's p.Pixel[y][x].       *)
(***************************************************************************)

\* A faulty rotate that turns the other way round.
rotateBack(pl, rot) ==
    IF rot = 0 THEN pl
    ELSE LET N == Len(pl.Pixel)
             old(y, x) == pl.Pixel[y + 1][x + 1]
         IN  [pl EXCEPT !.Pixel =
                 [y1 \in 1..N |-> [x1 \in 1..N |->
                     LET y == y1 - 1
                         x == x1 - 1
                     IN  CASE rot = 1 -> old(N - 1 - x, y)
                           [] rot = 2 -> old(N - 1 - y, N - 1 - x)
                           [] rot = 3 -> old(x, N - 1 - y)
                           [] OTHER -> ZeroPixel]]]

rotate(pl, rot) ==
    IF rot = 0 THEN pl
    ELSE LET N == Len(pl.Pixel)
             old(y, x) == pl.Pixel[y + 1][x + 1]
         IN  [pl EXCEPT !.Pixel =
                 [y1 \in 1..N |-> [x1 \in 1..N |->
                     LET y == y1 - 1
                         x == x1 - 1
                     IN  CASE rot = 1 -> old(x, N - 1 - y)
                           [] rot = 2 -> old(N - 1 - y, N - 1 - x)
                           [] rot = 3 -> old(N - 1 - x, y)
                           [] OTHER -> ZeroPixel]]]

(***************************************************************************)
(* Image.target.  Go's / truncates toward zero.                            *)
(***************************************************************************)

Quo(a, b) == IF a >= 0 THEN a \div b ELSE -((-a) \div b)

InTarget(T, tx, ty) == ty >= 0 /\ ty < Len(T) /\ tx >= 0 /\ tx < Len(T[ty + 1])

\* Is there a target value at (x, y)?  (contrast >= 0 exactly then)
hasTarget(mm, x, y) ==
    /\ InTarget(mm.Target, x + mm.Dx, y + mm.Dy)
    /\ mm.Target[y + mm.Dy + 1][x + mm.Dx + 1] >= 0

\* The sum of f(v) over the values v of row ty, columns tx-5+from..tx+5.
RECURSIVE rowSum(_, _, _, _, _)
rowSum(T, tx, ty, dx, sq) ==
    IF dx > 5 THEN 0
    ELSE (IF InTarget(T, tx + dx, ty)
          THEN (IF sq THEN T[ty + 1][tx + dx + 1] * T[ty + 1][tx + dx + 1]
                ELSE T[ty + 1][tx + dx + 1])
          ELSE 0) + rowSum(T, tx, ty, dx + 1, sq)

RECURSIVE winSum(_, _, _, _, _)
winSum(T, tx, ty, dy, sq) ==
    IF dy > 5 THEN 0
    ELSE rowSum(T, tx, ty + dy, -5, sq) + winSum(T, tx, ty, dy + 1, sq)

winCount(T, tx, ty) ==
    Cardinality({d \in (-5..5) \X (-5..5) : InTarget(T, tx + d[1], ty + d[2])})

target(mm, x, y) ==
    IF ~hasTarget(mm, x, y) THEN [targ |-> 255, contrast |-> -1]
    ELSE LET tx == x + mm.Dx
             ty == y + mm.Dy
             n == winCount(mm.Target, tx, ty)
             sum == winSum(mm.Target, tx, ty, -5, FALSE)
             sumsq == winSum(mm.Target, tx, ty, -5, TRUE)
             avg == Quo(sum, n)
         IN  [targ |-> mm.Target[ty + 1][tx + 1] % 256,
              contrast |-> Quo(sumsq, n) - avg * avg]

\* Target images on the 7 x 7 grid, with their placement (Dx, Dy).
Gray == [Target |-> [y \in 1..7 |-> [x \in 1..7 |-> 128]], Dx |-> 0, Dy |-> 0]
AntiMask ==
    [Target |-> [y \in 1..7 |-> [x \in 1..7 |->
                    IF MaskInvert(0, x - 1, y - 1) THEN 255 ELSE 0]],
     Dx |-> 0, Dy |-> 0]
Holes ==
    [Target |-> [y \in 1..7 |-> [x \in 1..7 |->
                    IF (x + 2 * y) % 5 = 0 THEN -1 ELSE (40 * x + 25 * y) % 256]],
     Dx |-> 0, Dy |-> 0]
Shifted == [Target |-> [y \in 1..7 |-> [x \in 1..7 |-> 0]], Dx |-> 2, Dy |-> -1]

Targets == {Gray, AntiMask, Holes, Shifted}
URLs == {<<>>, <<1>>, <<1, 2, 0, 1, 2, 0, 1, 2, 0, 1, 2>>}

\* target(x, y) of every target image, tabulated.
targetTab ==
    [t \in Targets |-> [y \in 0..6 |-> [x \in 0..6 |-> target(t, x, y)]]]

targetOf(mm, x, y) ==
    targetTab[[Target |-> mm.Target, Dx |-> mm.Dx, Dy |-> mm.Dy]][y][x]

(***************************************************************************)
(* The random source, a sequence of period 256: the k-th later call of     *)
(* Intn(n) on state s yields (s + k * RandStep) % 256 % n.                 *)
(***************************************************************************)

RandStep == 77

Intn(s, k, n) == ((s + k * RandStep) % 256) % n

(***************************************************************************)
(* Image.Encode.                                                           *)
(***************************************************************************)

nc == p.CheckBytes \div p.Blocks
extra == p.DataBytes - (p.DataBytes \div p.Blocks) * p.Blocks
url == m.URL \o <<3>>
bbit == Len(StringEncode(url)) + Len(NumEncode(<<>>))
dbit == p.DataBytes * 8 - bbit
mbit == bbit + (dbit \div 10) * 10

\* The codeword of (url, digits): what b.Bytes() holds after the encoding.
Codeword(digits) == AddCheckBytes(StringEncode(url) \o NumEncode(digits), p)

\* The template: url and all-'0' digits.
Template == Codeword([k \in 1..((dbit \div 10) * 3) |-> 0])

\* Faulty ranges: the header kept in whole bytes only, and the bits after
\* the last whole group of 10 taken as editable.
loWholeBytes ==
    IF 0 < bbit - doff
    THEN (IF bbit - doff > nd * 8 THEN nd * 8 ELSE ((bbit - doff) \div 8) * 8)
    ELSE 0
hiUnclamped == nd * 8

\* The bits of the current block the pass may edit, [lo, hi).
lo == IF 0 < bbit - doff
      THEN (IF bbit - doff > nd * 8 THEN nd * 8 ELSE bbit - doff)
      ELSE 0
hi == IF nd * 8 > mbit - doff
      THEN (IF mbit - doff < lo THEN lo ELSE mbit - doff)
      ELSE nd * 8

\* bb: the block being filled.
bb == heap[bitblocks[Len(bitblocks)]]

Return(r) == /\ result' = r
             /\ pc' = "done"

\* Lines 186-225: the plan, rotated, and the Pixinfo of every data/check bit.
Start ==
    /\ pc = "start"
    /\ LET pl == rotate(NewPlan(m.Version, m.Mask), m.Rotation)
           N == Len(pl.Pixel)
           cells == (0..(N - 1)) \X (0..(N - 1))
           calls(x, y) ==
               Cardinality({c \in cells : /\ c[2] * N + c[1] < y * N + x
                                         /\ hasTarget(m, c[1], c[2])})
           info(off) ==
               LET c == CHOOSE c \in cells :
                            /\ IsBit(pl.Pixel[c[2] + 1][c[1] + 1])
                            /\ pl.Pixel[c[2] + 1][c[1] + 1].Offset = off
                   t == targetOf(m, c[1], c[2])
               IN  [X |-> c[1], Y |-> c[2], Pix |-> pl.Pixel[c[2] + 1][c[1] + 1],
                    Targ |-> t.targ, DTarg |-> 0,
                    Contrast |-> IF m.Rand /\ t.contrast >= 0
                                 THEN Intn(rnd, calls(c[1], c[2]), 128)
                                        + 64 * ((c[1] + c[2]) % 2)
                                        + 64 * (((c[1] + c[2]) % 3) % 2)
                                 ELSE t.contrast,
                    HardZero |-> FALSE, Block |-> 0, Bit |-> 0]
       IN  /\ p' = pl
           /\ nd' = pl.DataBytes \div pl.Blocks
           /\ pixByOff' = [off \in 0..((pl.DataBytes + pl.CheckBytes) * 8 - 1) |-> info(off)]
           /\ expect' = [y \in 1..N |-> [x \in 1..N |-> pl.Pixel[y][x].Black]]
           /\ rnd' = IF m.Rand
                     THEN (rnd + RandStep * Cardinality({c \in cells : hasTarget(m, c[1], c[2])})) % 256
                     ELSE rnd
    /\ pc' = "again"
    /\ UNCHANGED <<m, num, doff, coff, blocknum, ipres, bitblocks, order, dpos,
                   heap, data, result, restarts, pinned, last, nops>>

\* Lines 227-252 (label Again): the template.
Again ==
    /\ pc = "again"
    /\ IF dbit < 0
       THEN /\ Return("cannot encode URL into available bits")
            /\ UNCHANGED <<num, data, doff, coff, blocknum, bitblocks>>
       ELSE /\ num' = [k \in 1..((dbit \div 10) * 3) |-> 0]
            /\ data' = Template
            /\ doff' = 0
            /\ coff' = 0
            /\ blocknum' = 0
            /\ bitblocks' = <<>>
            /\ pc' = "block"
            /\ UNCHANGED result
    /\ UNCHANGED <<m, p, rnd, nd, pixByOff, ipres, order, dpos, heap, restarts,
                   pinned, last, nops, expect>>

\* Lines 255-263: the next block's solver.
Block ==
    /\ pc = "block"
    /\ LET nd1 == IF blocknum = p.Blocks - extra THEN nd + 1 ELSE nd
           bdata == doff \div 8
           cdata == p.DataBytes + coff \div 8
       IN  /\ nd' = nd1
           /\ IF bdata + nd1 > Len(data) \/ cdata + nc > Len(data)
              THEN /\ Return("slice bounds out of range")
                   /\ UNCHANGED <<heap, bitblocks, ipres, pinned>>
              ELSE LET r == newBlock(nd1, nc, NewRSEncoder(nc), data, bdata, cdata)
                   IN  /\ heap' = Append(heap, r.bb)
                       /\ pinned' = Append(pinned, <<>>)
                       /\ bitblocks' = Append(bitblocks, Len(heap) + 1)
                       /\ ipres' = 0
                       /\ IF r.panic = "none"
                          THEN pc' = "preserve" /\ UNCHANGED result
                          ELSE Return(r.panic)
    /\ UNCHANGED <<m, p, rnd, pixByOff, num, doff, coff, blocknum, order, dpos,
                   data, restarts, last, nops, expect>>

\* The next bit of the two loops of lines 280-290: [0, lo), then [hi, nd*8).
nextPreserved == IF ipres >= lo /\ ipres < hi THEN hi ELSE ipres

\* Lines 280-290: preserve one bit.
Preserve ==
    /\ pc = "preserve"
    /\ nextPreserved < nd * 8
    /\ LET k == nextPreserved
           r == canSet(bb, k, BitAt(Slice(data, bb.bdata, nd), k))
       IN  /\ heap' = [heap EXCEPT ![Len(heap)] = r.bb]
           /\ last' = Call("canSet", Len(heap), k, BitAt(Slice(data, bb.bdata, nd), k), r.ret)
           /\ pinned' = IF r.ret
                        THEN Pin(Len(heap), k, BitAt(Slice(data, bb.bdata, nd), k))
                        ELSE pinned
           /\ ipres' = k + 1
           /\ IF r.panic # "none" THEN Return(r.panic)
              ELSE IF ~r.ret THEN Return("cannot preserve required bits")
              ELSE pc' = "preserve" /\ UNCHANGED result
    /\ nops' = nops + 1
    /\ UNCHANGED <<m, p, rnd, nd, pixByOff, num, doff, coff, blocknum, bitblocks,
                   order, dpos, data, restarts, expect>>

\* Lines 292-308: the order list of the block, with its priorities.  The
\* sort is the walk's choice of a largest priority left (SteerStep).
Order ==
    /\ pc = "preserve"
    /\ nextPreserved >= nd * 8
    /\ LET n == IF m.OnlyDataBits THEN hi - lo ELSE (hi - lo) + nc * 8
           Off(k) == IF k < hi - lo THEN doff + lo + k
                     ELSE p.DataBytes * 8 + coff + (k - (hi - lo))
       IN  /\ order' = {[Off |-> Off(k),
                         Priority |-> pixByOff[Off(k)].Contrast * 256 + Intn(rnd, k, 256)]
                           : k \in 0..(n - 1)}
           /\ rnd' = (rnd + n * RandStep) % 256
    /\ pc' = "steer"
    /\ UNCHANGED <<m, p, nd, pixByOff, num, doff, coff, blocknum, ipres, bitblocks,
                   dpos, heap, data, result, restarts, pinned, last, nops, expect>>

\* A faulty choice that ignores the module's Invert flag.
wantedNoInvert(pinfo, targ) ==
    IF pinfo.HardZero THEN 0 ELSE IF targ < 128 THEN 1 ELSE 0

\* A faulty choice that ignores HardZero.
wantedNoHard(pinfo, targ) ==
    LET b0 == IF targ < 128 THEN 1 ELSE 0
    IN  IF pinfo.Pix.Invert THEN 1 - b0 ELSE b0

\* The bit value wanted of a module with target brightness targ.
wanted(pinfo, targ) ==
    LET b0 == IF targ < 128 THEN 1 ELSE 0
        b1 == IF pinfo.Pix.Invert THEN 1 - b0 ELSE b0
    IN  IF pinfo.HardZero THEN 0 ELSE b1

\* Lines 311-348: one step of the walk over the sorted order.
SteerStep ==
    /\ pc = "steer"
    /\ \E po \in order :
        /\ \A o \in order : o.Priority <= po.Priority
        /\ LET pinfo == pixByOff[po.Off]
               bval == wanted(pinfo, pinfo.Targ)
               bi == IF pinfo.Pix.Role = "Data" THEN po.Off - doff
                     ELSE po.Off - p.DataBytes * 8 - coff + nd * 8
               r == canSet(bb, bi, bval)
           IN  /\ heap' = [heap EXCEPT ![Len(heap)] = r.bb]
               /\ last' = Call("canSet", Len(heap), bi, bval, r.ret)
               /\ pixByOff' = IF r.ret
                              THEN [pixByOff EXCEPT ![po.Off].Block = Len(heap),
                                                    ![po.Off].Bit = bi]
                              ELSE pixByOff
               /\ pinned' = IF r.ret THEN Pin(Len(heap), bi, bval) ELSE pinned
               /\ order' = order \ {po}
               /\ IF r.panic # "none" THEN Return(r.panic)
                  ELSE IF ~r.ret /\ pinfo.HardZero THEN Return("hard zero")
                  ELSE pc' = "steer" /\ UNCHANGED result
    /\ nops' = nops + 1
    /\ UNCHANGED <<m, p, rnd, nd, num, doff, coff, blocknum, ipres, bitblocks,
                   dpos, data, restarts, expect>>

\* Lines 351-373: the expect grid after the block's bits are written to it,
\* the data bits first and the check bits after them.
expectAfter ==
    LET inC(off) == /\ off >= p.DataBytes * 8 + coff
                    /\ off < p.DataBytes * 8 + coff + nc * 8
        inD(off) == off >= doff /\ off < doff + nd * 8
        bit(off) == IF inC(off)
                    THEN BitAt(bb.B, nd * 8 + (off - p.DataBytes * 8 - coff))
                    ELSE BitAt(bb.B, off - doff)
    IN  [y \in 1..Len(expect) |-> [x \in 1..Len(expect[y]) |->
            LET at == {off \in DOMAIN pixByOff :
                         /\ inC(off) \/ inD(off)
                         /\ pixByOff[off].X = x - 1 /\ pixByOff[off].Y = y - 1}
            IN  IF at = {} THEN expect[y][x]
                ELSE p.Pixel[y][x].Black # (bit(CHOOSE off \in at : TRUE) = 1)]]

\* Lines 349-376: copy the block out and go to the next one.
BlockEnd ==
    /\ pc = "steer"
    /\ order = {}
    /\ IF checkFails(bb, bb.B)
       THEN Return("mismatch") /\ UNCHANGED <<data, doff, coff, blocknum, expect>>
       ELSE /\ data' = copyOut(bb, data)
            /\ expect' = expectAfter
            /\ doff' = doff + nd * 8
            /\ coff' = coff + nc * 8
            /\ blocknum' = blocknum + 1
            /\ pc' = IF blocknum + 1 < p.Blocks THEN "block"
                     ELSE IF m.Dither THEN "dither" ELSE "numbers"
            /\ UNCHANGED result
    /\ dpos' = -1
    /\ UNCHANGED <<m, p, rnd, nd, pixByOff, num, ipres, bitblocks, order,
                   heap, restarts, pinned, last, nops>>

\* Lines 380-383: the dither targets start as the targets.
DitherStart ==
    /\ pc = "dither"
    /\ dpos = -1
    /\ pixByOff' = [off \in DOMAIN pixByOff |-> [pixByOff[off] EXCEPT !.DTarg = pixByOff[off].Targ]]
    /\ dpos' = 0
    /\ UNCHANGED <<pc, m, p, rnd, nd, num, doff, coff, blocknum, ipres, bitblocks,
                   order, heap, data, result, restarts, pinned, last, nops, expect>>

\* addDither(pixByOff, pix, err)
addDither(pbo, pix, err) ==
    IF ~IsBit(pix) THEN pbo
    ELSE [pbo EXCEPT ![pix.Offset].DTarg = @ + err]

\* A faulty dither choice that ignores HardZero.
ditherChoiceNoHard(pinfo, targ) ==
    LET pval0 == IF targ >= 128 THEN 0 ELSE 1
    IN  [bval |-> IF pinfo.Pix.Invert THEN 1 - pval0 ELSE pval0,
         v |-> IF targ >= 128 THEN 255 ELSE 0]

\* Lines 395-414: the bit value bval and gray value v the dither pass gives
\* a module whose dither target is targ.
ditherChoice(pinfo, targ) ==
    LET pval0 == IF targ >= 128 THEN 0 ELSE 1
        v0 == IF targ >= 128 THEN 255 ELSE 0
        bval0 == IF pinfo.Pix.Invert THEN 1 - pval0 ELSE pval0
        flip == pinfo.HardZero /\ bval0 # 0
    IN  [bval |-> IF flip THEN 1 - bval0 ELSE bval0,
         v |-> IF flip THEN 255 - v0 ELSE v0]

\* Lines 384-435: the pixel at dpos.
DitherStep ==
    /\ pc = "dither"
    /\ dpos >= 0
    /\ dpos < Len(p.Pixel) * Len(p.Pixel)
    /\ LET N == Len(p.Pixel)
           x == dpos % N
           y == dpos \div N
           pix0 == p.Pixel[y + 1][x + 1]
       IN  IF ~IsBit(pix0) \/ pixByOff[pix0.Offset].Block = 0
           THEN UNCHANGED <<pixByOff, heap, result, pc, pinned, last, nops>>
           ELSE
             LET pinfo == pixByOff[pix0.Offset]
                 targ == pinfo.DTarg
                 bval == ditherChoice(pinfo, targ).bval
                 r == reset(heap[pinfo.Block], pinfo.Bit, bval)
                 err == targ - ditherChoice(pinfo, targ).v
             IN  /\ heap' = [heap EXCEPT ![pinfo.Block] = r.bb]
                 /\ last' = Call("reset", pinfo.Block, pinfo.Bit, bval, TRUE)
                 /\ pinned' = Pin(pinfo.Block, pinfo.Bit, bval)
                 /\ nops' = nops + 1
                 /\ pixByOff' = IF x + 1 < N
                                THEN addDither(pixByOff, p.Pixel[y + 1][x + 2], Quo(err * 7, 16))
                                ELSE pixByOff
                 /\ IF r.panic # "none" THEN Return(r.panic)
                    ELSE UNCHANGED <<pc, result>>
    /\ dpos' = dpos + 1
    /\ UNCHANGED <<m, p, rnd, nd, num, doff, coff, blocknum, ipres, bitblocks,
                   order, data, restarts, expect>>

\* copyOut of the blocks bs, in order.
RECURSIVE copyOutAll(_, _)
copyOutAll(bs, mem) ==
    IF bs = <<>> THEN mem ELSE copyOutAll(Tail(bs), copyOut(heap[Head(bs)], mem))

\* Lines 437-439: copy every block out again.
DitherEnd ==
    /\ pc = "dither"
    /\ dpos = Len(p.Pixel) * Len(p.Pixel)
    /\ IF \E k \in 1..Len(bitblocks) : checkFails(heap[bitblocks[k]], heap[bitblocks[k]].B)
       THEN Return("mismatch") /\ UNCHANGED data
       ELSE /\ data' = copyOutAll(bitblocks, data)
            /\ pc' = "numbers"
            /\ UNCHANGED result
    /\ UNCHANGED <<m, p, rnd, nd, pixByOff, num, doff, coff, blocknum, ipres, bitblocks,
                   order, dpos, heap, restarts, pinned, last, nops, expect>>

\* The value of the 10 bits of the steered data at bbit + 10*g.
group(mem, g) ==
    LET b(j) == BitAt(mem, bbit + 10 * g + j)
    IN  512 * b(0) + 256 * b(1) + 128 * b(2) + 64 * b(3) + 32 * b(4)
          + 16 * b(5) + 8 * b(6) + 4 * b(7) + 2 * b(8) + b(9)

\* A faulty test that lets every group through.
oopsNever(v) == FALSE

\* Is the value of a group no 3-digit number?
oops(v) == v >= 1000

\* Lines 442-469: copy the numbers back out; mark and restart on a bad group.
CopyNumbers ==
    /\ pc = "numbers"
    /\ LET bad == {g \in 0..((dbit \div 10) - 1) : oops(group(data, g))}
       IN  /\ num' = [k \in 1..((dbit \div 10) * 3) |->
                        LET v == group(data, (k - 1) \div 3)
                        IN  CASE (k - 1) % 3 = 0 -> v \div 100
                              [] (k - 1) % 3 = 1 -> (v \div 10) % 10
                              [] OTHER -> v % 10]
           /\ pixByOff' = [off \in DOMAIN pixByOff |->
                             IF \E g \in bad : off = bbit + 10 * g + 3
                             THEN [pixByOff[off] EXCEPT !.Contrast = 3906250,
                                                        !.HardZero = TRUE]
                             ELSE pixByOff[off]]
           /\ pc' = IF bad # {} THEN "again" ELSE "final"
           /\ restarts' = IF bad # {} THEN restarts + 1 ELSE restarts
    /\ UNCHANGED <<m, p, rnd, nd, doff, coff, blocknum, ipres, bitblocks, order, dpos,
                   heap, data, result, pinned, last, nops, expect>>

\* Lines 471-518: encode (url, num) afresh and compare.
Final ==
    /\ pc = "final"
    /\ IF data # Codeword(num) THEN Return("byte mismatch")
       ELSE IF \E k \in 1..Len(num) : num[k] > 9 THEN Return("non-numeric string")
       ELSE Return("ok")
    /\ UNCHANGED <<m, p, rnd, nd, pixByOff, num, doff, coff, blocknum, ipres, bitblocks,
                   order, dpos, heap, data, restarts, pinned, last, nops, expect>>

(***************************************************************************)
(* Spec: one call of Encode on an Image.                                   *)
(***************************************************************************)

\* The seeds of the random source.  Rand is off in the Images explored: the
\* contrast of a module is that of its target.
Seeds == {0, 101}

Init ==
    /\ \E u \in URLs, v \in DOMAIN VersionTab, k \in {0, 1}, r \in {0, 1}, t \in Targets,
          d \in BOOLEAN, o \in BOOLEAN :
          m = [URL |-> u, Version |-> v, Mask |-> k, Rotation |-> r,
               Target |-> t.Target, Dx |-> t.Dx, Dy |-> t.Dy,
               Rand |-> FALSE, Dither |-> d, OnlyDataBits |-> o]
    /\ rnd \in Seeds
    /\ pc = "start" /\ p = <<>> /\ nd = 0 /\ pixByOff = <<>> /\ num = <<>>
    /\ doff = 0 /\ coff = 0 /\ blocknum = 0 /\ ipres = 0 /\ bitblocks = <<>>
    /\ order = {} /\ dpos = -1 /\ expect = <<>> /\ heap = <<>> /\ data = <<>>
    /\ result = "running"
    /\ restarts = 0 /\ pinned = <<>> /\ last = NoCall /\ nops = 0

Next ==
    \/ Start \/ Again \/ Block \/ Preserve \/ Order \/ SteerStep \/ BlockEnd
    \/ DitherStart \/ DitherStep \/ DitherEnd \/ CopyNumbers \/ Final

Spec == Init /\ [][Next]_vars

\* The blocks of the current pass.
curBlocks == {bitblocks[k] : k \in 1..Len(bitblocks)}

\* The bit of `data` that bit j of block b is copied out to.
DataBitOf(b, j) ==
    IF j < b.DataBytes * 8 THEN b.bdata * 8 + j
    ELSE b.cdata * 8 + (j - b.DataBytes * 8)

\* A pass is over: the data are steered, dithered and copied out.
PassEnd == pc \in {"numbers", "final"} \/ result = "ok"

\* The 10-bit groups of the numeric segment, and the bits outside them.
Groups == 0..((dbit \div 10) - 1)
PreservedBits == (0..(bbit - 1)) \cup (mbit..(p.DataBytes * 8 - 1))

\* The modules the walk of block h steered.
steered(h) == {off \in DOMAIN pixByOff : pixByOff[off].Block = h}

\* C2: at the end of every pass, and so when Encode returns successfully,
\* every preserved bit of the steered data (the header bits [0, bbit) and the
\* padding bits [mbit, DataBytes*8)) has the value it has in the template.
C2_Preserved ==
    PassEnd => \A k \in PreservedBits : BitAt(data, k) = BitAt(Template, k)

\* Encode has returned a steered, dithered codeword after a restart; it has
\* padding bits.
C2_Witness ==
    /\ result = "ok" /\ restarts >= 1 /\ m.Dither
    /\ data # Template
    /\ bbit > 0 /\ mbit < p.DataBytes * 8

\* C3: when Encode reaches the final encode step, and so at a successful
\* return, every 10-bit group of the steered numeric segment decodes to a
\* value in [0, 999] and num holds its three decimal digits.
C3_Numeric ==
    (pc = "final" \/ result = "ok") =>
        /\ Len(num) = 3 * (dbit \div 10)
        /\ \A g \in Groups :
              /\ group(data, g) < 1000
              /\ \A k \in 1..3 : num[3 * g + k] \in 0..9
              /\ 100 * num[3 * g + 1] + 10 * num[3 * g + 2] + num[3 * g + 3]
                    = group(data, g)

\* Encode has returned after a restart, with a group that has its 512 bit.
C3_Witness ==
    /\ result = "ok" /\ restarts >= 1
    /\ \E g \in Groups : group(data, g) >= 512

\* C4: when Encode reaches the final encode step, encoding (url, digits)
\* afresh gives exactly the steered codeword, data and check bytes; the
\* "byte mismatch" panic is never raised.
C4_Reencode ==
    /\ pc = "final" => data = Codeword(num)
    /\ result # "byte mismatch"

\* Encode has returned a steered two-block codeword of a non-empty URL.
C4_Witness ==
    /\ result = "ok" /\ p.Blocks = 2 /\ m.URL # <<>>
    /\ data # Template

\* C5: every jump back to Again marks a module hard-zero that was not so
\* marked, and the number of jumps is at most the number of 10-bit groups.
C5Step ==
    restarts' = restarts + 1 =>
        /\ restarts' <= dbit \div 10
        /\ \E off \in DOMAIN pixByOff :
              ~pixByOff[off].HardZero /\ pixByOff'[off].HardZero

\* C5, of every step: each restart marks a new hard-zero module and there
\* are never more restarts than 10-bit groups.
C5_Restarts == [][C5Step]_vars

\* Encode has returned, without dithering, after a restart.
C5_Witness == result = "ok" /\ restarts >= 1 /\ ~m.Dither

\* A single block, a target that is set everywhere and uniform, check bits
\* edited, and the walk of the block is over.
C7Case ==
    /\ pc = "steer" /\ order = {}
    /\ p.Blocks = 1 /\ ~m.OnlyDataBits
    /\ m.Target = Gray.Target /\ m.Dx = 0 /\ m.Dy = 0

\* C7 as the claim has it: the walk steers as many modules as the block has
\* data and check modules, less its preserved bits.
C7_Original ==
    C7Case => Cardinality(steered(Len(heap)))
                 = (nd + nc) * 8 - (lo + (nd * 8 - hi))

\* C7: for a single block, a fully set uniform target and OnlyDataBits
\* false, the walk steers as many modules as the block has data modules,
\* less its preserved bits.
C7_Amended ==
    C7Case => Cardinality(steered(Len(heap))) = nd * 8 - (lo + (nd * 8 - hi))

\* Such a walk is over; it steered check modules among others.
C7_Witness ==
    /\ C7Case
    /\ lo > 0 /\ hi > lo
    /\ \E off \in steered(Len(heap)) : off >= p.DataBytes * 8

\* C9: a reset(i, v) of a bit pinned before on the same block leaves bit i
\* of B equal to v, changes no other pinned bit of B and no row, and does not
\* panic; so when the dither pass is over every pinned bit of the blocks of
\* the pass, preserved or steered, has in the data the value last chosen
\* for it.
C9Step ==
    /\ Called("reset") =>
          LET h == last'.blk
          IN  /\ result' = result
              /\ BitAt(heap'[h].B, last'.bi) = last'.bval
              /\ \A j \in DOMAIN pinned[h] \ {last'.bi} :
                    BitAt(heap'[h].B, j) = BitAt(heap[h].B, j)
              /\ last'.bi \in DOMAIN pinned[h]
              /\ heap'[h].len = heap[h].len
              /\ heap'[h].M = heap[h].M
    /\ result' # "reset of unset bit"
    /\ (pc' = "numbers" /\ m.Dither) =>
          \A h \in curBlocks : \A j \in DOMAIN pinned'[h] :
              BitAt(data', DataBitOf(heap[h], j)) = pinned'[h][j]

\* C9, of every step: each reset sets its bit and nothing else that is
\* pinned, without a panic, and the dithered data hold the chosen values.
C9_Reset == [][C9Step]_vars

\* The dither pass is over and has left a steered module with the other
\* value than the walk gave it.
C9_Witness ==
    /\ pc = "numbers" /\ m.Dither /\ last.op = "reset"
    /\ \E off \in DOMAIN pixByOff :
          /\ pixByOff[off].Block \in curBlocks
          /\ BitAt(data, off) # wanted(pixByOff[off], pixByOff[off].Targ)

\* C10: once the module at bbit + 10*g + 3 is marked hard-zero, in every
\* later pass its canSet succeeds (no "hard zero" panic), its bit is 0 when
\* the pass is over, dithered or not, and group g is below 1000.
C10_HardZero ==
    /\ result # "hard zero"
    /\ PassEnd =>
          \A g \in Groups :
              pixByOff[bbit + 10 * g + 3].HardZero =>
                  /\ pixByOff[bbit + 10 * g + 3].Block \in curBlocks
                  /\ BitAt(data, bbit + 10 * g + 3) = 0
                  /\ group(data, g) < 1000

\* A dithered pass after a restart is over, and the dither target of a
\* hard-zero module asked for a 1 bit.
C10_Witness ==
    /\ pc = "numbers" /\ restarts >= 1 /\ m.Dither
    /\ \E g \in Groups :
          /\ pixByOff[bbit + 10 * g + 3].HardZero
          /\ (pixByOff[bbit + 10 * g + 3].DTarg >= 128)
                = pixByOff[bbit + 10 * g + 3].Pix.Invert

\* The data bytes block k (from 0) is to hold, and the byte it starts at:
\* the last `extra` blocks hold one byte more.
blockSize(k) ==
    p.DataBytes \div p.Blocks + (IF k >= p.Blocks - extra THEN 1 ELSE 0)
blockStart(k) ==
    k * (p.DataBytes \div p.Blocks)
        + (IF k > p.Blocks - extra THEN k - (p.Blocks - extra) ELSE 0)

chosen(off) == pixByOff[off].Block # 0

\* canSet succeeded in the current pass for the module of bit number off:
\* a block of the pass has pinned it, and not to preserve it.
succeeded(off) ==
    /\ off \notin PreservedBits
    /\ \E h \in curBlocks : \E j \in DOMAIN pinned[h] : DataBitOf(heap[h], j) = off

\* C13: at the dither pass and at the control-image step of any pass a
\* Pixinfo has a Block exactly if canSet succeeded for its module in the
\* current pass, and that block is one of the current pass's bitblocks.
C13_BackRefs ==
    (pc = "dither" \/ pc = "final" \/ result = "ok") =>
        \A off \in DOMAIN pixByOff :
            /\ chosen(off) <=> succeeded(off)
            /\ chosen(off) => pixByOff[off].Block \in curBlocks

\* C11: with Dither off, when a pass is over every data or check module
\* whose canSet succeeded in that pass and which is not hard-zero is expected
\* black exactly if its target brightness is below 128, whatever was pinned
\* after it.
C11_Colour ==
    (~m.Dither /\ PassEnd) =>
        \A off \in DOMAIN pixByOff :
            (pixByOff[off].Block \in curBlocks /\ ~pixByOff[off].HardZero) =>
                expect[pixByOff[off].Y + 1][pixByOff[off].X + 1]
                    = (pixByOff[off].Targ < 128)

\* An undithered pass after a restart is over; it steered a dark and a light
\* module, data and check, and gave up on another.
C11_Witness ==
    /\ ~m.Dither /\ pc = "numbers" /\ restarts >= 1
    /\ \E o1 \in steered(Len(heap)), o2 \in steered(Len(heap)) :
          /\ pixByOff[o1].Targ < 128 /\ pixByOff[o2].Targ >= 128
          /\ pixByOff[o1].Pix.Role = "Check"
    /\ \E off \in DOMAIN pixByOff : pixByOff[off].Block \notin curBlocks

(***************************************************************************)
(* SpecRot: the rotate button (pic.Rotation = (pic.Rotation + 1) & 3) and  *)
(* the call m.rotate(p, m.Rotation) of Encode, on square plans of any side.*)
(***************************************************************************)

\* The largest side of a plan.
MaxSide == 4

\* A plan of side n: module (x, y) has offset y*n + x, and a role and an
\* Invert flag by its place.
GridPlan(n, mask, seed) ==
    [Version |-> 0, DataBytes |-> 0, CheckBytes |-> 0, Blocks |-> 1,
     Pixel |-> [y \in 1..n |-> [x \in 1..n |->
                  [Role |-> CASE ((x - 1) + seed * (y - 1)) % 3 = 0 -> "Data"
                              [] ((x - 1) + seed * (y - 1)) % 3 = 1 -> "Check"
                              [] OTHER -> "Position",
                   Offset |-> (y - 1) * n + (x - 1),
                   Invert |-> ((x - 1) + mask * (y - 1)) % 2 = 0,
                   Black |-> ((x - 1) + mask * (y - 1)) % 2 = 0]]]]

InitRot ==
    /\ \E n \in 1..MaxSide, k \in {0, 1}, sd \in 0..2 :
          /\ m = [N |-> n, Mask |-> k, Seed |-> sd, Rotation |-> 0]
          /\ p = GridPlan(n, k, sd)
    /\ pc = "pic" /\ rnd = 0 /\ nd = 0 /\ pixByOff = <<>> /\ num = <<>>
    /\ doff = 0 /\ coff = 0 /\ blocknum = 0 /\ ipres = 0 /\ bitblocks = <<>>
    /\ order = {} /\ dpos = -1 /\ expect = <<>> /\ heap = <<>> /\ data = <<>>
    /\ result = "running"
    /\ restarts = 0 /\ pinned = <<>> /\ last = NoCall /\ nops = 0

\* qart/arrow.go: func rotate()
Arrow ==
    /\ pc = "pic"
    /\ m' = [m EXCEPT !.Rotation = (m.Rotation + 1) % 4]
    /\ UNCHANGED <<pc, p, rnd, nd, pixByOff, num, doff, coff, blocknum, ipres,
                   bitblocks, order, dpos, heap, data, result, restarts, pinned,
                   last, nops, expect>>

\* Encode, line 200: m.rotate(p, m.Rotation)
Rotate ==
    /\ pc = "pic"
    /\ p' = rotate(p, m.Rotation)
    /\ pc' = "rotated"
    /\ UNCHANGED <<m, rnd, nd, pixByOff, num, doff, coff, blocknum, ipres,
                   bitblocks, order, dpos, heap, data, result, restarts, pinned,
                   last, nops, expect>>

NextRot == Arrow \/ Rotate

SpecRot == InitRot /\ [][NextRot]_vars

\* The plan before the rotation.
Plan0 == GridPlan(m.N, m.Mask, m.Seed)

\* C6 as the claim has it: after rotate(p, 1) the module that was at column
\* x, row y is at column N-1-y, row x, with its role, offset and mask flags.
C6_Original ==
    (pc = "rotated" /\ m.Rotation = 1) =>
        /\ Len(p.Pixel) = m.N
        /\ \A x \in 0..(m.N - 1), y \in 0..(m.N - 1) :
              p.Pixel[x + 1][(m.N - 1 - y) + 1] = Plan0.Pixel[y + 1][x + 1]

\* C6: after rotate(p, 1) on an N x N plan the module that was at column x,
\* row y is at column y, row N-1-x, with its role, offset and mask flags.
C6_Amended ==
    (pc = "rotated" /\ m.Rotation = 1) =>
        /\ Len(p.Pixel) = m.N
        /\ \A x \in 0..(m.N - 1), y \in 0..(m.N - 1) :
              p.Pixel[(m.N - 1 - x) + 1][y + 1] = Plan0.Pixel[y + 1][x + 1]

\* A plan of side 3 or more has been rotated by 1.
C6_Witness ==
    /\ pc = "rotated" /\ m.Rotation = 1 /\ m.N >= 3
    /\ p # Plan0

====
